---- MODULE Spec2Model ----
(***************************************************************************)
(* Model of the Ingredient-Analyzer browser client (script.js and its      *)
(* earlier revision): the retry helper withExponentialBackoff and the      *)
(* request orchestrator getRecipes in its four revisions, with the DOM     *)
(* state they mutate (submit control, its label, the output region).       *)
(*                                                                         *)
(* JavaScript runs each task to completion: one action of the model is the *)
(* code executed between two suspension points (await of a fetch, of a     *)
(* body read, of a timer, of a file read).                                 *)
(***************************************************************************)
EXTENDS Integers, Sequences, FiniteSets, TLC

VARIABLES
    variant,    \* which revision of the page is loaded
    disabled,   \* button.disabled of #recipeButton
    label,      \* content of #buttonText
    output,     \* content of #recipeContent
    pc,         \* per invocation of getRecipes: its suspension point
    loc,        \* per invocation: its local variables
    frame,      \* per invocation: the activation of withExponentialBackoff
    log,        \* per invocation: the effects it performed, in program order
    net,        \* HTTP requests in flight
    health,     \* the DOMContentLoaded health probe
    bk,         \* a stand-alone activation of withExponentialBackoff
    md          \* a stand-alone call of a markdown renderer

vars == <<variant, disabled, label, output, pc, loc, frame, log, net, health, bk, md>>

orchVars == <<variant, disabled, label, output, pc, loc, frame, log, net, health>>

----------------------------------------------------------------------------
(* Bounds of the model *)

\* largest maxRetries argument tried on the stand-alone retry helper
MaxRetriesArg == 4

\* longest raw text typed into #foodPrompt
MaxPromptLen == 2

\* longest ingredients array returned by the analyze endpoint
MaxIngredients == 2

\* length of the texts given to the markdown renderers, character by character
MaxTextLen == 4

\* number of lines of the texts built from whole lines
MaxLines == 2

(* Program constants *)

\* default value of the maxRetries parameter
DefaultMaxRetries == 3

\* base delay in milliseconds
BaseDelayMs == 1000

\* Math.random() * 1000 lies in [0, JitterRange)
JitterRange == 1000

----------------------------------------------------------------------------
(* Values *)

\* An Error object, identified by its message: a kind, and the status code
\* and text the message is built from.
Msg(kind, status, text) == [kind |-> kind, status |-> status, text |-> text]

NoMsg == Msg("none", 0, "")

\* errors a rejected fetch() carries (TypeError: Failed to fetch, ...)
NetErrors == {Msg("network", 0, "Failed to fetch"), Msg("network", 0, "Load failed")}

\* the value undefined
Undefined == [tag |-> "undefined"]

\* a Response: status line only, the body is read separately
Response(status, statusText) ==
    [tag |-> "response", status |-> status, statusText |-> statusText,
     ok |-> (status >= 200 /\ status <= 299)]

Responses ==
    {Response(200, "OK"), Response(500, "Internal Server Error"),
     Response(500, ""), Response(404, "Not Found")}

----------------------------------------------------------------------------
(* withExponentialBackoff *)

RECURSIVE Pow2(_)
Pow2(n) == IF n <= 0 THEN 1 ELSE 2 * Pow2(n - 1)

\* const delay = Math.pow(2, i) * 1000;
DelayNoJitter(i) == Pow2(i) * BaseDelayMs

\* variant of DelayJitter: the jitter is twice as wide
DelayJitterWide(i, j) == Pow2(i) * BaseDelayMs + 2 * j

\* const delay = Math.pow(2, i) * 1000 + Math.random() * 1000;
DelayJitter(i, j) == Pow2(i) * BaseDelayMs + j

\* values of Math.random() * 1000 tried
JitterChoices == {0, JitterRange - 1}

\* the delays attempt i can be followed by, per revision of the helper
Delays(jitter, i) ==
    IF jitter THEN {DelayJitter(i, j) : j \in JitterChoices}
    ELSE {DelayNoJitter(i)}

\* an entry of an activation's history: what happened, the delay chosen, and
\* the value or error it carried
Ev(ev, d, x) == [ev |-> ev, d |-> d, x |-> x]

NoFrame ==
    [i |-> 0, maxRetries |-> 0, st |-> "none", hist |-> <<>>,
     val |-> Undefined, err |-> NoMsg]

\* variant of LoopTest: falling out of the loop throws instead of returning
LoopTestThrows(f) ==
    IF f.i < f.maxRetries
    THEN [f EXCEPT !.st = "calling", !.hist = Append(@, Ev("invoke", 0, NoMsg))]
    ELSE [f EXCEPT !.st = "thrown", !.err = Msg("literal", 0, "Max retries exceeded")]

\* for (...; i < maxRetries; ...) { try { return await fn(); ...
\* the loop test, and the invocation of fn when it passes; falling out of
\* the loop returns undefined
LoopTest(f) ==
    IF f.i < f.maxRetries
    THEN [f EXCEPT !.st = "calling", !.hist = Append(@, Ev("invoke", 0, NoMsg))]
    ELSE [f EXCEPT !.st = "returned", !.val = Undefined]

\* the call: let i = 0, then the loop
WithExponentialBackoff(maxRetries) ==
    LoopTest([NoFrame EXCEPT !.maxRetries = maxRetries, !.st = "entered"])

\* variant of FnRejected: the next attempt starts at once, the delay is not
\* awaited
FnRejectedNoWait(f, e, delay) ==
    IF f.i = f.maxRetries - 1
    THEN [f EXCEPT !.st = "thrown", !.err = e,
                   !.hist = Append(@, Ev("rejected", 0, e))]
    ELSE LoopTest([f EXCEPT !.i = @ + 1,
                            !.hist = Append(Append(@, Ev("rejected", 0, e)),
                                            Ev("delay", delay, NoMsg))])

\* variant of FnRejected: the last attempt is tested as i === maxRetries
FnRejectedOffByOne(f, e, delay) ==
    IF f.i = f.maxRetries
    THEN [f EXCEPT !.st = "thrown", !.err = e,
                   !.hist = Append(@, Ev("rejected", 0, e))]
    ELSE [f EXCEPT !.st = "waiting",
                   !.hist = Append(Append(@, Ev("rejected", 0, e)),
                                   Ev("delay", delay, NoMsg))]

\* variant of FnResolved: the result is awaited but not returned, so the loop
\* goes on
FnResolvedNoReturn(f, v) ==
    LoopTest([f EXCEPT !.i = @ + 1, !.val = v,
                       !.hist = Append(@, Ev("resolved", 0, v))])

\* return await fn();  with fn's promise fulfilled by v
FnResolved(f, v) ==
    [f EXCEPT !.st = "returned", !.val = v,
              !.hist = Append(@, Ev("resolved", 0, v))]

\* catch (error) { if (i === maxRetries - 1) throw error;
\*                 const delay = ...; await new Promise(setTimeout) }
FnRejected(f, e, delay) ==
    IF f.i = f.maxRetries - 1
    THEN [f EXCEPT !.st = "thrown", !.err = e,
                   !.hist = Append(@, Ev("rejected", 0, e))]
    ELSE [f EXCEPT !.st = "waiting",
                   !.hist = Append(Append(@, Ev("rejected", 0, e)),
                                   Ev("delay", delay, NoMsg))]

\* the timer fires: i++, then the loop test again
TimerFired(f) ==
    LoopTest([f EXCEPT !.i = @ + 1,
                       !.hist = Append(@, Ev("elapsed", 0, NoMsg))])

\* number of events of kind ev in a history
RECURSIVE CountEv(_, _)
CountEv(h, ev) ==
    IF h = <<>> THEN 0
    ELSE (IF Head(h).ev = ev THEN 1 ELSE 0) + CountEv(Tail(h), ev)

----------------------------------------------------------------------------
(* The retry helper on its own: any maxRetries, any fn *)

\* values fn may resolve with
FnValues == {Response(200, "OK"), Response(500, "")}

BkInit == bk = [f |-> NoFrame, jitter |-> FALSE]

\* a caller calls withExponentialBackoff(fn, maxRetries), in either revision
BkCall ==
    /\ bk.f.st = "none"
    /\ \E n \in -1 .. MaxRetriesArg, j \in BOOLEAN :
          bk' = [f |-> WithExponentialBackoff(n), jitter |-> j]
    /\ UNCHANGED <<orchVars, md>>

\* fn's promise fulfils
BkFnResolves ==
    /\ bk.f.st = "calling"
    /\ \E v \in FnValues : bk' = [bk EXCEPT !.f = FnResolved(@, v)]
    /\ UNCHANGED <<orchVars, md>>

\* fn throws or its promise rejects
BkFnRejects ==
    /\ bk.f.st = "calling"
    /\ \E e \in NetErrors, d \in Delays(bk.jitter, bk.f.i) :
          bk' = [bk EXCEPT !.f = FnRejected(@, e, d)]
    /\ UNCHANGED <<orchVars, md>>

\* the setTimeout callback resolves the awaited promise
BkTimer ==
    /\ bk.f.st = "waiting"
    /\ bk' = [bk EXCEPT !.f = TimerFired(@)]
    /\ UNCHANGED <<orchVars, md>>

----------------------------------------------------------------------------
(* Inputs of getRecipes and values exchanged with the backend *)

\* revisions of the page: script.js 1-155, 156-473, 474-767, unnamed/part_000
Variants == {"vercel", "flask", "gemini", "basic"}

\* withExponentialBackoff wraps fetch in these revisions only
UsesBackoff(v) == v \in {"flask", "gemini"}

\* the revision of withExponentialBackoff a page carries adds jitter or not
HelperHasJitter(v) == v \in {"flask", "gemini"}

Chars == {" ", "a"}

\* what the user may have typed into #foodPrompt
RawPrompts == UNION {[1 .. n -> Chars] : n \in 0 .. MaxPromptLen}

\* the white space and line terminators of the texts of the model
WhiteSpace == {" ", "\n"}

\* String.prototype.trim
RECURSIVE TrimStart(_)
TrimStart(s) == IF s # <<>> /\ Head(s) \in WhiteSpace THEN TrimStart(Tail(s)) ELSE s

RECURSIVE TrimEnd(_)
TrimEnd(s) ==
    IF s # <<>> /\ s[Len(s)] \in WhiteSpace
    THEN TrimEnd(SubSeq(s, 1, Len(s) - 1)) ELSE s

\* variant of Trim: the raw value is used as typed
TrimNothing(s) == s

Trim(s) == TrimEnd(TrimStart(s))

\* variant of FormData: the prompt is never appended
FormDataImageOnly(imageFile, prompt) ==
    IF imageFile THEN {[name |-> "image", value |-> <<"file">>]} ELSE {}

\* const formData = new FormData(); if (imageFile) append('image', ...);
\* if (prompt) append('prompt', prompt);
FormData(imageFile, prompt) ==
    (IF imageFile THEN {[name |-> "image", value |-> <<"file">>]} ELSE {})
    \cup (IF prompt # <<>> THEN {[name |-> "prompt", value |-> prompt]} ELSE {})

\* a JSON member that may be missing (or falsy), a truthy non-array whose
\* length is not 0 (a number, true, {}, {"length": 2}, "egg"), a truthy
\* non-array whose length is 0 ({"length": 0}), or an array
Absent == [t |-> "absent", items |-> <<>>]
NonArray == [t |-> "nonarray", items |-> <<>>]
EmptyNonArray == [t |-> "emptynonarray", items |-> <<>>]
Array(items) == [t |-> "array", items |-> items]

\* value.length === 0
LengthIsZero(g) == g.t = "emptynonarray" \/ (g.t = "array" /\ Len(g.items) = 0)

\* a parsed body: parse is "bad" (response.json() rejects), "null" (the JSON
\* value null) or "obj" (any other value, with the members read by the code;
\* a missing or falsy string member is "")
BodyObj ==
    [parse |-> "obj", success |-> FALSE, error |-> "", ingredients |-> Absent,
     pa |-> "", ia |-> "", recipes |-> Absent, total |-> -1,
     text |-> "", sources |-> Absent]

JsonBad == [BodyObj EXCEPT !.parse = "bad"]
JsonNull == [BodyObj EXCEPT !.parse = "null"]

IngredientNames == {"egg", "rice"}

IngredientLists == UNION {[1 .. n -> IngredientNames] : n \in 0 .. MaxIngredients}

LongList == <<"i1", "i2", "i3", "i4", "i5", "i6", "i7", "i8", "i9">>

\* a recipe of the get_recipes response: the members the backend sends
Recipe(title, ingredients, instructions) ==
    [title |-> title, ingredients |-> ingredients, instructions |-> instructions]

RecipeLists ==
    {<<>>,
     <<Recipe("Omelette", Array(<<"egg">>), <<"beat", "fry">>)>>,
     <<Recipe("Fried rice", Array(LongList), <<"boil", "fry">>),
       Recipe("Omelette", Array(<<"egg">>), <<"beat", "fry">>)>>,
     <<Recipe("Toast", Absent, <<>>)>>,
     <<Recipe("Omelette", Array(<<"egg">>), <<"beat", "fry">>),
       Recipe("Soup", NonArray, <<>>)>>,
     <<Recipe("Stew", EmptyNonArray, <<>>)>>}

\* a truthy value that is not a string
NonString == "#nonstring"

\* bodies the analyze endpoint of the Flask backend may send
FlaskAnalyzeBodies ==
    {JsonBad, JsonNull}
    \cup {[BodyObj EXCEPT !.success = TRUE, !.ingredients = g] :
             g \in {Absent, NonArray, EmptyNonArray}
                   \cup {Array(l) : l \in IngredientLists}}
    \cup {[BodyObj EXCEPT !.success = s, !.error = e, !.ingredients = g] :
             s \in BOOLEAN, e \in {"", "E1"}, g \in {Absent, Array(<<"egg">>)}}

\* bodies the get_recipes endpoint may send
FlaskRecipesBodies ==
    {JsonBad, JsonNull}
    \cup {[BodyObj EXCEPT !.success = TRUE, !.recipes = r, !.total = t] :
             r \in {NonArray, EmptyNonArray} \cup {Array(l) : l \in RecipeLists},
             t \in {-1, 7}}
    \cup {[BodyObj EXCEPT !.success = s, !.error = e, !.recipes = r] :
             s \in BOOLEAN, e \in {"", "E2"}, r \in {Absent, Array(<<>>)}}

\* bodies of the free-text analyze endpoint (vercel, basic)
TextAnalyzeBodies ==
    {JsonBad, JsonNull}
    \cup {[BodyObj EXCEPT !.success = s, !.error = e, !.pa = a, !.ia = b] :
             s \in BOOLEAN, e \in {"", "E1"},
             a \in {"", "T1", NonString}, b \in {"", "T2"}}

\* an element of groundingAttributions other than a usable one ("src", with
\* web.uri and web.title both truthy): one without a truthy web.uri or
\* web.title ({}, {"web": {"title": "t"}}, "x", 5), and the value null
NoLink == "#nolink"
NullAttribution == "#null"

\* bodies of the generateContent endpoint (gemini)
GeminiBodies ==
    {JsonBad, JsonNull}
    \cup {[BodyObj EXCEPT !.text = x, !.sources = g] :
             x \in {"", "T3", NonString},
             g \in {Absent, NonArray, EmptyNonArray, Array(<<>>), Array(<<"src">>),
                    Array(<<NoLink>>), Array(<<NoLink, "src">>),
                    Array(<<NullAttribution>>)}}

\* bodies of an error response read by  response.json().catch(() => ({}))
ErrorBodies ==
    {JsonBad, JsonNull, BodyObj, [BodyObj EXCEPT !.error = "E1"]}

----------------------------------------------------------------------------
(* The output region and the effects of one invocation *)

\* content of #recipeContent: which block, and what it was rendered from
Out(kind, msg, items, count, cards, total, text) ==
    [kind |-> kind, msg |-> msg, items |-> items, count |-> count,
     cards |-> cards, total |-> total, text |-> text]

Plain(kind) == Out(kind, NoMsg, <<>>, 0, <<>>, -1, "")

\* the context one task of invocation p runs in
Ctx(p) ==
    [p |-> p, disabled |-> disabled, label |-> label, output |-> output,
     net |-> net, pc |-> pc[p], loc |-> loc[p], frame |-> frame[p],
     log |-> log[p]]

Commit(p, m) ==
    /\ disabled' = m.disabled
    /\ label' = m.label
    /\ output' = m.output
    /\ net' = m.net
    /\ pc' = [pc EXCEPT ![p] = m.pc]
    /\ loc' = [loc EXCEPT ![p] = m.loc]
    /\ frame' = [frame EXCEPT ![p] = m.frame]
    /\ log' = [log EXCEPT ![p] = m.log]

Event(e, a) == [e |-> e, a |-> a]

Logged(m, e, a) == [m EXCEPT !.log = Append(@, Event(e, a))]

\* button.disabled = b
SetDisabled(m, b) ==
    Logged([m EXCEPT !.disabled = b], IF b THEN "disable" ELSE "enable", "")

\* buttonText.innerHTML = ... / buttonText.textContent = ...
SetLabel(m, l) == Logged([m EXCEPT !.label = l], "label", l)

\* outputDiv.innerHTML = ...
SetOutput(m, o) == Logged([m EXCEPT !.output = o], "output", o.kind)

\* number of events e in a log
RECURSIVE Count(_, _)
Count(l, e) ==
    IF l = <<>> THEN 0 ELSE (IF Head(l).e = e THEN 1 ELSE 0) + Count(Tail(l), e)

Request(p, n, endpoint, fields) ==
    [p |-> p, n |-> n, endpoint |-> endpoint, fields |-> fields, phase |-> "headers"]

\* fetch(url, {...}): the request leaves, the task suspends on its promise
Fetch(m, endpoint, fields) ==
    Logged([m EXCEPT !.net = @ \cup {Request(m.p, Count(m.log, "fetch") + 1,
                                               endpoint, fields)},
                     !.pc = "fetch"],
           "fetch", endpoint)

\* the response arrived and its body is being read
ReadBody(m, kind) ==
    [m EXCEPT !.net = {IF r.p = m.p THEN [r EXCEPT !.phase = "body"] ELSE r : r \in @},
              !.pc = "body", !.loc.reading = kind]

\* the exchange is over (rejected, body read, or body never read)
Complete(m) == [m EXCEPT !.net = {r \in @ : r.p # m.p}]

----------------------------------------------------------------------------
(* getRecipes: the parts shared by its revisions *)

InitLoc ==
    [raw |-> <<>>, image |-> FALSE, prompt |-> <<>>, accepted |-> FALSE,
     stage |-> "none", payload |-> {}, reading |-> "none", base64 |-> FALSE,
     response |-> Undefined, errorData |-> BodyObj, result |-> BodyObj,
     ingredientsList |-> <<>>,
     recipesResponse |-> Undefined, recipesResult |-> BodyObj,
     thrown |-> NoMsg]

\* the async function returns: its promise fulfils
Return(m) == [m EXCEPT !.pc = "done"]

\* variant of Finally: the function returns without the finally block
FinallySkipped(m) == Return(m)

\* finally { button.disabled = false; buttonText.textContent = 'Get Recipes'; }
Finally(m) == Return(SetLabel(SetDisabled(m, FALSE), "Get Recipes"))

\* variant of Catch: the error is logged to the console only
CatchSilent(m, e) == m

\* variant of Catch: a fixed text instead of error.message
CatchGeneric(m, e) ==
    SetOutput(m, Out("error", Msg("literal", 0, "Something went wrong"),
                     <<>>, 0, <<>>, -1, ""))

\* catch (error) { console.error(...); outputDiv.innerHTML = `...${error.message}...`; }
Catch(m, e) == SetOutput(m, Out("error", e, <<>>, 0, <<>>, -1, ""))

\* throw new Error(...), or a rejected await: remembered as the failure of
\* this invocation
Raise(m, e) == [m EXCEPT !.loc.thrown = e]

\* an exception raised inside the try block
Throw(m, e) == Finally(Catch(Raise(m, e), e))

\* result.error || '<fallback>'
ErrorOr(b, fallback) ==
    IF b.error # "" THEN Msg("body", 0, b.error) ELSE Msg("literal", 0, fallback)

TypeError(what) == Msg("TypeError", 0, what)

\* what a rejected response.json() carries
SyntaxError == Msg("SyntaxError", 0, "Unexpected token")

\* the texts set while loading
LoadingLabel(v) == IF v = "gemini" THEN "Generating" ELSE "Analyzing"

Endpoint(v, stage) ==
    CASE stage = "recipes" -> "get_recipes"
      [] v = "gemini" -> "generateContent"
      [] OTHER -> "analyze"

\* the closure passed to withExponentialBackoff (or the bare call): fetch(url, {...})
FetchFn(m) == Fetch(m, Endpoint(variant, m.loc.stage), m.loc.payload)

----------------------------------------------------------------------------
(* getRecipes, Flask revision: script.js 211-362 *)

Min(a, b) == IF a < b THEN a ELSE b

\* const recipeIngredients = recipe.ingredients || []: a truthy value that is
\* not an array has no slice (or, for a string, slice gives no array to map),
\* and building the card throws
Sliceable(recipe) == recipe.ingredients.t \in {"absent", "array"}

\* recipes.map((recipe, idx) => ...): number, title, first 8 ingredients,
\* count of the remaining ones; the template reads no other member of the
\* recipe, so a card lists no steps
Card(recipe, idx) ==
    LET ings == recipe.ingredients.items
    IN [num |-> idx, title |-> recipe.title,
        shown |-> SubSeq(ings, 1, Min(8, Len(ings))),
        more |-> IF Len(ings) > 8 THEN Len(ings) - 8 ELSE 0,
        steps |-> <<>>]

Cards(recipes) == [k \in 1 .. Len(recipes) |-> Card(recipes[k], k)]

\* variant of OnRecipesBody: the "no recipes" message replaces the whole region
OnRecipesBodyMessageOnly(m, b) ==
    LET m1 == [m EXCEPT !.loc.recipesResult = b]
    IN IF b.parse = "obj" /\ b.success /\ b.recipes.t = "array"
       THEN Finally(SetOutput(m1, Plain("ingredientsNoRecipes")))
       ELSE Throw(m1, ErrorOr(b, "Failed to get recipes"))

\* script.js 299-349: const recipesResult = await recipesResponse.json(); ...
OnRecipesBody(m, b) ==
    LET m1 == [m EXCEPT !.loc.recipesResult = b]
        list == m.loc.ingredientsList
    IN CASE b.parse = "bad" -> Throw(m1, SyntaxError)
         [] b.parse = "null" -> Throw(m1, TypeError("null.success"))
         [] b.parse = "obj" /\ b.success /\ b.recipes.t # "absent" ->
                IF LengthIsZero(b.recipes)
                THEN Finally(SetOutput(m1,
                        Out("ingredientsNoRecipes", NoMsg, list, Len(list), <<>>, -1, "")))
                ELSE IF b.recipes.t # "array"
                THEN Throw(m1, TypeError("recipes.map"))
                ELSE IF \E k \in DOMAIN b.recipes.items : ~Sliceable(b.recipes.items[k])
                THEN Throw(m1, TypeError("recipeIngredients.slice"))
                ELSE Finally(SetOutput(m1,
                        Out("recipes", NoMsg, list, Len(list),
                            Cards(b.recipes.items), b.total, "")))
         [] OTHER -> Throw(m1, ErrorOr(b, "Failed to get recipes"))

\* script.js 295-299
OnRecipesResponse(m, r) ==
    LET m1 == [m EXCEPT !.loc.recipesResponse = r]
    IN IF r = Undefined THEN Throw(Complete(m1), TypeError("undefined.ok"))
       ELSE IF ~r.ok
            THEN Throw(Complete(m1), Msg("Recipe fetch failed", 0, r.statusText))
            ELSE ReadBody(m1, "recipesResult")

\* variant of CallWithBackoff: one attempt more than the default
CallWithBackoffExtra(m) ==
    LET f == WithExponentialBackoff(DefaultMaxRetries + 1)
    IN [m EXCEPT !.frame = f]

\* a call site of withExponentialBackoff(() => fetch(...)): the helper runs
\* up to its first await in the caller's task
CallWithBackoff(m) ==
    LET f == WithExponentialBackoff(DefaultMaxRetries)
    IN [m EXCEPT !.frame = f]

\* script.js 284-293
StartRecipes(m) ==
    LET m1 == CallWithBackoff([m EXCEPT !.loc.stage = "recipes", !.loc.payload = {}])
    IN IF m1.frame.st = "calling" THEN FetchFn(m1)
       ELSE OnRecipesResponse([m1 EXCEPT !.frame = NoFrame], m1.frame.val)

\* variant of OnAnalyzeBodyFlask: result.success is not tested
OnAnalyzeBodyFlaskNoSuccessTest(m, b) ==
    LET m1 == [m EXCEPT !.loc.result = b]
        list == b.ingredients.items
    IN IF b.parse = "obj" /\ b.ingredients.t = "array"
       THEN IF Len(list) = 0
            THEN Finally(SetOutput(m1, Plain("noIngredients")))
            ELSE StartRecipes(
                    SetLabel(
                       SetOutput([m1 EXCEPT !.loc.ingredientsList = list],
                          Out("ingredientsFinding", NoMsg, list, Len(list),
                              <<>>, -1, "")),
                       "Finding Recipes"))
       ELSE Throw(m1, ErrorOr(b, "Unknown error from backend"))

\* variant of OnAnalyzeBodyFlask: an empty list goes on to the recipe call
OnAnalyzeBodyFlaskNoEmptyTest(m, b) ==
    LET m1 == [m EXCEPT !.loc.result = b]
        list == b.ingredients.items
    IN IF b.parse = "obj" /\ b.success /\ b.ingredients.t = "array"
       THEN StartRecipes(
               SetLabel(
                  SetOutput([m1 EXCEPT !.loc.ingredientsList = list],
                     Out("ingredientsFinding", NoMsg, list, Len(list),
                         <<>>, -1, "")),
                  "Finding Recipes"))
       ELSE Throw(m1, ErrorOr(b, "Unknown error from backend"))

\* script.js 256-282 and 350-352
OnAnalyzeBodyFlask(m, b) ==
    LET m1 == [m EXCEPT !.loc.result = b]
        list == b.ingredients.items
    IN CASE b.parse = "bad" -> Throw(m1, SyntaxError)
         [] b.parse = "null" -> Throw(m1, TypeError("null.success"))
         [] b.parse = "obj" /\ b.success /\ b.ingredients.t # "absent" ->
                IF LengthIsZero(b.ingredients)
                THEN Finally(SetOutput(m1, Plain("noIngredients")))
                ELSE IF b.ingredients.t # "array"
                THEN Throw(m1, TypeError("ingredientsList.map"))
                ELSE StartRecipes(
                        SetLabel(
                           SetOutput([m1 EXCEPT !.loc.ingredientsList = list],
                              Out("ingredientsFinding", NoMsg, list, Len(list),
                                  <<>>, -1, "")),
                           "Finding Recipes"))
         [] OTHER -> Throw(m1, ErrorOr(b, "Unknown error from backend"))

\* script.js 252-256
OnAnalyzeResponseFlask(m, r) ==
    IF r = Undefined THEN Throw(Complete(m), TypeError("undefined.ok"))
    ELSE IF ~r.ok
         THEN Throw(Complete(m), Msg("Backend call failed", 0, r.statusText))
         ELSE ReadBody(m, "result")

----------------------------------------------------------------------------
(* getRecipes, free-text revisions: script.js 67-142 and unnamed/part_000 51-109 *)

\* script.js 104-105: errorData.error || `Server error: ${status} ${statusText}`
OnErrorData(m, b) ==
    LET r == m.loc.response
        errorData == IF b.parse = "bad" THEN BodyObj ELSE b
        m1 == [m EXCEPT !.loc.errorData = errorData]
    IN IF errorData.parse = "null" THEN Throw(m1, TypeError("null.error"))
       ELSE IF errorData.error # "" THEN Throw(m1, Msg("body", 0, errorData.error))
       ELSE Throw(m1, Msg("Server error", r.status, r.statusText))

\* result.data?.prompt_analysis?.analysis || result.data?.image_analysis?.analysis
\*   || 'No analysis returned'
Analysis(b) ==
    IF b.pa # "" THEN b.pa ELSE IF b.ia # "" THEN b.ia ELSE "No analysis returned"

\* outputDiv.innerHTML = `<div ...>${simpleMarkdownToHtml(analysis)}</div>`
ShowAnalysis(m, analysis) ==
    IF analysis = NonString THEN Throw(m, TypeError("text.replace"))
    ELSE Finally(SetOutput(m, Out("analysis", NoMsg, <<>>, 0, <<>>, -1, analysis)))

\* script.js 108-121
OnAnalyzeBodyVercel(m, b) ==
    LET m1 == [m EXCEPT !.loc.result = b]
    IN CASE b.parse = "bad" -> Throw(m1, SyntaxError)
         [] b.parse = "null" -> Throw(m1, TypeError("null.success"))
         [] b.parse = "obj" /\ ~b.success -> Throw(m1, ErrorOr(b, "Analysis failed"))
         [] OTHER -> ShowAnalysis(m1, Analysis(b))

\* unnamed/part_000 86-94
OnAnalyzeBodyBasic(m, b) ==
    LET m1 == [m EXCEPT !.loc.result = b]
    IN CASE b.parse = "bad" -> Throw(m1, SyntaxError)
         [] b.parse = "null" -> Throw(m1, TypeError("null.data"))
         [] OTHER -> ShowAnalysis(m1, Analysis(b))

\* script.js 103-108
OnAnalyzeResponseVercel(m, r) ==
    IF ~r.ok THEN ReadBody(m, "errorData") ELSE ReadBody(m, "result")

\* unnamed/part_000 82-86
OnAnalyzeResponseBasic(m, r) ==
    IF ~r.ok THEN Throw(Complete(m), Msg("Server error", r.status, r.statusText))
    ELSE ReadBody(m, "result")

----------------------------------------------------------------------------
(* getRecipes, direct-API revision: script.js 529-657 *)

\* script.js 645-647: displaySources looks up #recipesOutput, which the page
\* may not have (the output region is #recipeContent)
ShowSources(m, n, hasSourcesElement) ==
    IF n > 0
    THEN IF hasSourcesElement THEN Finally(Logged(m, "sources", ""))
         ELSE Throw(m, TypeError("null.insertAdjacentHTML"))
    ELSE Finally(m)

\* script.js 638-643: markdownToHtml(responseText) into the output region
ShowMarkdown(m, responseText, n, hasSourcesElement) ==
    IF responseText = NonString THEN Throw(m, TypeError("markdown.replace"))
    ELSE ShowSources(SetOutput(m, Out("markdown", NoMsg, <<>>, 0, <<>>, -1, responseText)),
                     n, hasSourcesElement)

\* script.js 624-629: groundingAttributions.map(a => ({uri: a.web?.uri,
\* title: a.web?.title})).filter(source => source.uri && source.title)
Sources(attributions) ==
    SelectSeq(attributions, LAMBDA a : a \notin {NoLink, NullAttribution})

\* script.js 616-647
OnBodyGemini(m, b, hasSourcesElement) ==
    LET m1 == [m EXCEPT !.loc.result = b]
        attributions == b.sources.items
    IN CASE b.parse = "bad" -> Throw(m1, SyntaxError)
         [] b.parse = "null" -> Throw(m1, TypeError("null.candidates"))
         [] b.parse = "obj" /\ b.text = "" ->
                ShowMarkdown(m1, "mock recipes", 0, hasSourcesElement)
         [] b.parse = "obj" /\ b.text # ""
               /\ b.sources.t \in {"nonarray", "emptynonarray"} ->
                Throw(m1, TypeError("groundingAttributions.map"))
         [] b.parse = "obj" /\ b.text # ""
               /\ \E k \in DOMAIN attributions : attributions[k] = NullAttribution ->
                Throw(m1, TypeError("null.web"))
         [] OTHER ->
                ShowMarkdown(m1, b.text, Len(Sources(attributions)), hasSourcesElement)

\* script.js 612-616
OnResponseGemini(m, r) ==
    IF r = Undefined THEN Throw(Complete(m), TypeError("undefined.ok"))
    ELSE IF ~r.ok
         THEN Throw(Complete(m), Msg("API call failed", 0, r.statusText))
         ELSE ReadBody(m, "result")

\* script.js 566-586: the parts of the payload that depend on the input
GeminiPayload(prompt, base64) ==
    {[name |-> "text", value |-> IF prompt # <<>> THEN prompt ELSE <<"photo">>]}
    \cup (IF base64 THEN {[name |-> "inlineData", value |-> <<"file">>]} ELSE {})

----------------------------------------------------------------------------
(* getRecipes: dispatch on the revision *)

\* the statements after  const response = await ...
OnResponse(m, r) ==
    LET m1 == IF m.loc.stage = "recipes" THEN m ELSE [m EXCEPT !.loc.response = r]
    IN CASE m.loc.stage = "recipes" -> OnRecipesResponse(m1, r)
         [] variant = "flask" -> OnAnalyzeResponseFlask(m1, r)
         [] variant = "gemini" -> OnResponseGemini(m1, r)
         [] variant = "vercel" -> OnAnalyzeResponseVercel(m1, r)
         [] OTHER -> OnAnalyzeResponseBasic(m1, r)

\* the statements after  await response.json()
OnBody(m, b, hasSourcesElement) ==
    CASE m.loc.reading = "recipesResult" -> OnRecipesBody(m, b)
      [] m.loc.reading = "errorData" -> OnErrorData(m, b)
      [] variant = "flask" -> OnAnalyzeBodyFlask(m, b)
      [] variant = "gemini" -> OnBodyGemini(m, b, hasSourcesElement)
      [] variant = "vercel" -> OnAnalyzeBodyVercel(m, b)
      [] OTHER -> OnAnalyzeBodyBasic(m, b)

\* the bodies the server may send for what is being read
Bodies(v, reading) ==
    CASE reading = "recipesResult" -> FlaskRecipesBodies
      [] reading = "errorData" -> ErrorBodies
      [] v = "flask" -> FlaskAnalyzeBodies
      [] v = "gemini" -> GeminiBodies
      [] OTHER -> TextAnalyzeBodies

\* the first request: through withExponentialBackoff or bare
StartAnalyze(m, payload) ==
    LET m0 == [m EXCEPT !.loc.stage = "analyze", !.loc.payload = payload]
    IN IF UsesBackoff(variant)
       THEN LET m1 == CallWithBackoff(m0)
            IN IF m1.frame.st = "calling" THEN FetchFn(m1)
               ELSE OnResponse([m1 EXCEPT !.frame = NoFrame], m1.frame.val)
       ELSE FetchFn(m0)

\* variant of Validate: an image alone is not enough
ValidatePromptOnly(prompt, imageFile) == prompt # <<>>

\* if (!prompt && !imageFile) { outputDiv.innerHTML = '...'; return; }
Validate(prompt, imageFile) == ~(prompt = <<>> /\ ~imageFile)

\* variant of BeginLoading: the submit control stays enabled
BeginLoadingNoDisable(m) ==
    SetOutput(SetLabel(m, LoadingLabel(variant)), Plain("progress"))

\* button.disabled = true; buttonText.innerHTML = ...; outputDiv.innerHTML = ...
BeginLoading(m) ==
    SetOutput(SetLabel(SetDisabled(m, TRUE), LoadingLabel(variant)), Plain("progress"))

\* variant of GetRecipes: a call made while the submit control is disabled
\* returns at once
GetRecipesGuarded(m, raw, imageFile) ==
    LET prompt == Trim(raw)
        m0 == [m EXCEPT !.loc = [InitLoc EXCEPT !.raw = raw, !.image = imageFile,
                                                !.prompt = prompt]]
    IN IF m.disabled THEN Return(m0)
       ELSE IF ~Validate(prompt, imageFile)
       THEN Return(SetOutput(m0, Plain("warning")))
       ELSE LET m1 == BeginLoading([m0 EXCEPT !.loc.accepted = TRUE])
            IN IF variant = "gemini"
               THEN IF imageFile THEN [m1 EXCEPT !.pc = "image"]
                    ELSE StartAnalyze(m1, GeminiPayload(prompt, FALSE))
               ELSE StartAnalyze(m1, FormData(imageFile, prompt))

\* getRecipes() up to its first suspension point
GetRecipes(m, raw, imageFile) ==
    LET prompt == Trim(raw)
        m0 == [m EXCEPT !.loc = [InitLoc EXCEPT !.raw = raw, !.image = imageFile,
                                                !.prompt = prompt]]
    IN IF ~Validate(prompt, imageFile)
       THEN Return(SetOutput(m0, Plain("warning")))
       ELSE LET m1 == BeginLoading([m0 EXCEPT !.loc.accepted = TRUE])
            IN IF variant = "gemini"
               THEN IF imageFile THEN [m1 EXCEPT !.pc = "image"]
                    ELSE StartAnalyze(m1, GeminiPayload(prompt, FALSE))
               ELSE StartAnalyze(m1, FormData(imageFile, prompt))

\* what fileToBase64 settles with: the promise rejects (reader.onerror), or
\* resolves with reader.result.split(',')[1], which is empty or undefined for
\* a file of 0 bytes
ImageReads == {"error", "empty", "data"}

\* script.js 549-558 and 576: base64Image = await fileToBase64(imageFile),
\* then  if (base64Image)  decides whether the payload carries the image
OnImage(m, read) ==
    IF read # "error"
    THEN StartAnalyze([m EXCEPT !.loc.base64 = (read = "data")],
                      GeminiPayload(m.loc.prompt, read = "data"))
    ELSE Return(SetLabel(SetDisabled(SetOutput(m, Plain("imageError")), FALSE),
                         "Get Recipes"))

\* fetch's promise rejects: into the helper's catch, or the caller's
OnFetchRejected(m, e, delay) ==
    IF UsesBackoff(variant)
    THEN LET f == FnRejected(m.frame, e, delay)
             m1 == [m EXCEPT !.frame = f]
         IN IF f.st = "waiting" THEN Logged([m1 EXCEPT !.pc = "delay"], "delay", "")
            ELSE Throw([m1 EXCEPT !.frame = NoFrame], f.err)
    ELSE Throw(m, e)

\* fetch's promise fulfils
OnFetchResolved(m, r) ==
    IF UsesBackoff(variant)
    THEN LET f == FnResolved(m.frame, r)
         IN OnResponse([m EXCEPT !.frame = NoFrame], f.val)
    ELSE OnResponse(m, r)

\* the backoff timer fires
OnTimer(m) ==
    LET f == TimerFired(m.frame)
        m1 == [m EXCEPT !.frame = f]
    IN IF f.st = "calling" THEN FetchFn(m1)
       ELSE OnResponse([m1 EXCEPT !.frame = NoFrame], f.val)

----------------------------------------------------------------------------
(* The markdown renderers: simpleMarkdownToHtml (script.js 32-50,          *)
(* unnamed/part_000 29-47) and markdownToHtml (script.js 423-454).         *)
(* A text is a sequence of tokens: one token per character of the input,   *)
(* one token per tag (the tags hold none of the characters the regular     *)
(* expressions look for, so no match begins or ends inside a tag).         *)

Least(S) == CHOOSE i \in S : \A j \in S : i <= j

Greatest(S) == CHOOSE i \in S : \A j \in S : j <= i

\* String.prototype.split('\n')
RECURSIVE Split(_)
Split(s) ==
    LET nl == {i \in DOMAIN s : s[i] = "\n"}
    IN IF nl = {} THEN <<s>>
       ELSE <<SubSeq(s, 1, Least(nl) - 1)>> \o Split(SubSeq(s, Least(nl) + 1, Len(s)))

\* Array.prototype.join('\n')
RECURSIVE Join(_)
Join(lines) ==
    IF lines = <<>> THEN <<>>
    ELSE IF Len(lines) = 1 THEN lines[1]
    ELSE lines[1] \o <<"\n">> \o Join(Tail(lines))

\* String.prototype.startsWith
StartsWith(line, prefix) ==
    Len(line) >= Len(prefix) /\ SubSeq(line, 1, Len(prefix)) = prefix

\* the replacement of one line by /^<marks>(.+)$/ (min = 1) or /^<marks>(.*$)/
\* (min = 0): '<open>$1<close>'
Block(line, marks, min, open, close) ==
    IF StartsWith(line, marks) /\ Len(line) >= Len(marks) + min
    THEN <<open>> \o SubSeq(line, Len(marks) + 1, Len(line)) \o <<close>>
    ELSE line

\* .replace(/^<marks>(.+)$/gm, ...): with the m flag and a dot that matches no
\* line terminator, every line is matched on its own
BlockRule(s, marks, min, open, close) ==
    LET lines == Split(s)
    IN Join([k \in DOMAIN lines |-> Block(lines[k], marks, min, open, close)])

\* n asterisks at position i of a line
Stars(line, i, n) ==
    i + n - 1 <= Len(line) /\ \A k \in i .. i + n - 1 : line[k] = "*"

\* .replace(/\*\*(.+?)\*\*/g, ...) and .replace(/\*(.+?)\*/g, ...) on one line:
\* the leftmost opening marker that has a closing one at least min
\* characters later, the nearest such closing marker, then on from there
RECURSIVE Emphasis(_, _, _, _, _)
Emphasis(line, n, min, open, close) ==
    LET closers(i) == {j \in i + n + min .. Len(line) : Stars(line, j, n)}
        openers == {i \in DOMAIN line : Stars(line, i, n) /\ closers(i) # {}}
    IN IF openers = {} THEN line
       ELSE LET i == Least(openers)
                j == Least(closers(i))
            IN SubSeq(line, 1, i - 1) \o <<open>> \o SubSeq(line, i + n, j - 1)
                 \o <<close>>
                 \o Emphasis(SubSeq(line, j + n, Len(line)), n, min, open, close)

\* the dot of the emphasis patterns matches no line terminator
EmphasisRule(s, n, min, open, close) ==
    LET lines == Split(s)
    IN Join([k \in DOMAIN lines |-> Emphasis(lines[k], n, min, open, close)])

\* every tag the renderers write or look for: the tokens that begin with '<'
Tags ==
    {"<h3 class=\"text-xl font-semibold mt-4 mb-2\">", "</h3>",
     "<h2 class=\"text-2xl font-bold mt-6 mb-3 text-blue-800\">", "</h2>",
     "<h1 class=\"text-3xl font-extrabold mt-8 mb-4\">",
     "<h1 class=\"text-3xl font-extrabold mt-8 mb-4 text-gray-900\">", "</h1>",
     "<li class=\"ml-6\">", "<li class=\"list-disc ml-6\">", "<li>", "</li>",
     "<ul class=\"list-disc my-2\">", "<ul>", "</ul>",
     "<hr class=\"border-t-2 border-gray-200 my-6\"/>",
     "<hr class=\"border-t-2 border-gray-200 my-8\"/>",
     "<strong>", "</strong>", "<em>", "</em>",
     "<p class=\"mb-2\">", "<p>", "</p>"}

\* script.js 40: .replace(/(<li>.*<\/li>\n?)+/gs, '<ul ...>$&</ul>'): with the
\* s flag the greedy dot runs from the first '<li>' to the last '</li>' of
\* the text, so there is at most one match
WrapListItemsSimple(s) ==
    LET closes == {j \in DOMAIN s : s[j] = "</li>"}
        opens == {i \in DOMAIN s : s[i] = "<li>" /\ \E j \in closes : i < j}
    IN IF opens = {} THEN s
       ELSE LET i == Least(opens)
                j == Greatest(closes)
                e == IF j < Len(s) /\ s[j + 1] = "\n" THEN j + 1 ELSE j
            IN SubSeq(s, 1, i - 1) \o <<"<ul class=\"list-disc my-2\">">>
                 \o SubSeq(s, i, e) \o <<"</ul>">> \o SubSeq(s, e + 1, Len(s))

\* script.js 42: .replace(/^---$/gm, '<hr .../>')
HorizontalRuleSimple(line) ==
    IF line = <<"-", "-", "-">>
    THEN <<"<hr class=\"border-t-2 border-gray-200 my-6\"/>">> ELSE line

\* script.js 48: line.trim() && !line.startsWith('<') ? `<p class="mb-2">${line}</p>` : line
ParagraphSimple(line) ==
    IF Trim(line) # <<>> /\ ~(Head(line) \in Tags)
    THEN <<"<p class=\"mb-2\">">> \o line \o <<"</p>">>
    ELSE line

\* script.js 32-50 and unnamed/part_000 29-47
SimpleMarkdownToHtml(text) ==
    LET h3 == BlockRule(text, <<"#", "#", "#", " ">>, 1,
                        "<h3 class=\"text-xl font-semibold mt-4 mb-2\">", "</h3>")
        h2 == BlockRule(h3, <<"#", "#", " ">>, 1,
                        "<h2 class=\"text-2xl font-bold mt-6 mb-3 text-blue-800\">", "</h2>")
        h1 == BlockRule(h2, <<"#", " ">>, 1,
                        "<h1 class=\"text-3xl font-extrabold mt-8 mb-4\">", "</h1>")
        li == BlockRule(h1, <<"*", " ">>, 1, "<li class=\"ml-6\">", "</li>")
        ul == WrapListItemsSimple(li)
        hr == LET lines == Split(ul)
              IN Join([k \in DOMAIN lines |-> HorizontalRuleSimple(lines[k])])
        strong == EmphasisRule(hr, 2, 1, "<strong>", "</strong>")
        em == EmphasisRule(strong, 1, 1, "<em>", "</em>")
        lines == Split(em)
    IN Join([k \in DOMAIN lines |-> ParagraphSimple(lines[k])])

\* script.js 432: html.replace(/(<li>.*?<\/li>)/gs, '<ul>$1</ul>'): every
\* '<li>' up to the nearest '</li>' after it, from left to right
RECURSIVE WrapListItems(_)
WrapListItems(s) ==
    LET closers(i) == {j \in i + 1 .. Len(s) : s[j] = "</li>"}
        opens == {i \in DOMAIN s : s[i] = "<li>" /\ closers(i) # {}}
    IN IF opens = {} THEN s
       ELSE LET i == Least(opens)
                j == Least(closers(i))
            IN SubSeq(s, 1, i - 1) \o <<"<ul>">> \o SubSeq(s, i, j) \o <<"</ul>">>
                 \o WrapListItems(SubSeq(s, j + 1, Len(s)))

\* the position of the '<ul>' that closes a match of /<\/ul>\n*<ul>/ begun at i
ListJoint(s, i) ==
    {j \in i + 1 .. Len(s) :
        s[j] = "<ul>" /\ \A k \in i + 1 .. j - 1 : s[k] = "\n"}

\* script.js 434: html.replace(/<\/ul>\n*<ul>/g, '')
RECURSIVE MergeLists(_)
MergeLists(s) ==
    LET joints == {i \in DOMAIN s : s[i] = "</ul>" /\ ListJoint(s, i) # {}}
    IN IF joints = {} THEN s
       ELSE LET i == Least(joints)
                j == Least(ListJoint(s, i))
            IN SubSeq(s, 1, i - 1) \o MergeLists(SubSeq(s, j + 1, Len(s)))

\* script.js 437: html.replace(/^---/gim, '<hr .../>')
HorizontalRule(line) ==
    IF StartsWith(line, <<"-", "-", "-">>)
    THEN <<"<hr class=\"border-t-2 border-gray-200 my-8\"/>">> \o SubSeq(line, 4, Len(line))
    ELSE line

\* the tokens in which /<\/?(h[1-3]|ul|hr|div|p)>/i finds a match: the tags
\* written with attributes hold none
BlockLevel == {"</h1>", "</h2>", "</h3>", "<ul>", "</ul>", "<p>", "</p>"}

\* script.js 444-451: a line with a block-level tag as it is, any other line
\* trimmed and in a paragraph, or '' when blank
Paragraph(line) ==
    IF \E k \in DOMAIN line : line[k] \in BlockLevel THEN line
    ELSE IF Trim(line) # <<>> THEN <<"<p>">> \o Trim(line) \o <<"</p>">>
    ELSE <<>>

\* script.js 423-454
MarkdownToHtml(markdown) ==
    LET h3 == BlockRule(markdown, <<"#", "#", "#", " ">>, 0,
                        "<h3 class=\"text-xl font-semibold mt-4 mb-2\">", "</h3>")
        h2 == BlockRule(h3, <<"#", "#", " ">>, 0,
                        "<h2 class=\"text-2xl font-bold mt-6 mb-3 text-blue-800\">", "</h2>")
        h1 == BlockRule(h2, <<"#", " ">>, 0,
                        "<h1 class=\"text-3xl font-extrabold mt-8 mb-4 text-gray-900\">",
                        "</h1>")
        li == BlockRule(h1, <<"*", " ">>, 0, "<li class=\"list-disc ml-6\">", "</li>")
        ul == MergeLists(WrapListItems(li))
        hr == LET lines == Split(ul)
              IN Join([k \in DOMAIN lines |-> HorizontalRule(lines[k])])
        strong == EmphasisRule(hr, 2, 0, "<strong>", "</strong>")
        em == EmphasisRule(strong, 1, 0, "<em>", "</em>")
        lines == Split(Trim(em))
    IN Join([k \in DOMAIN lines |-> Paragraph(lines[k])])

----------------------------------------------------------------------------
(* The page: invocations of getRecipes and the health probe *)

\* activations of getRecipes that may exist at once
NumSlots == 2

Procs == 1 .. NumSlots

\* the probe's request is owned by no invocation
ProbeOwner == NumSlots + 1

OrchInit ==
    /\ variant \in Variants
    /\ disabled = FALSE
    /\ label = "Get Recipes"
    /\ output = Plain("initial")
    /\ pc = [p \in Procs |-> "idle"]
    /\ loc = [p \in Procs |-> InitLoc]
    /\ frame = [p \in Procs |-> NoFrame]
    /\ log = [p \in Procs |-> <<>>]
    /\ net = {}
    /\ health = "idle"

\* an activation record is free before its first use and once its
\* invocation has returned
Free(p) == pc[p] \in {"idle", "done"}

\* the free activation record a new invocation takes
FreeSlot(p) == Free(p) /\ \A q \in Procs : q < p => ~Free(q)

\* a fresh activation in slot p
Fresh(p) == [Ctx(p) EXCEPT !.log = <<>>, !.frame = NoFrame, !.loc = InitLoc]

\* the user clicks the submit control: a disabled button fires no click
Click(p) ==
    /\ ~disabled
    /\ FreeSlot(p)
    /\ \E raw \in RawPrompts, imageFile \in BOOLEAN :
          Commit(p, GetRecipes(Fresh(p), raw, imageFile))
    /\ UNCHANGED <<variant, health, bk, md>>

\* the FileReader finishes or fails
ImageSettles(p) ==
    /\ pc[p] = "image"
    /\ \E read \in ImageReads : Commit(p, OnImage(Ctx(p), read))
    /\ UNCHANGED <<variant, health, bk, md>>

\* the network fails
FetchRejects(p) ==
    /\ pc[p] = "fetch"
    /\ \E e \in NetErrors, d \in Delays(HelperHasJitter(variant), frame[p].i) :
          Commit(p, OnFetchRejected(Complete(Ctx(p)), e, d))
    /\ UNCHANGED <<variant, health, bk, md>>

\* the status line and headers of the response arrive
FetchResolves(p) ==
    /\ pc[p] = "fetch"
    /\ \E r \in Responses : Commit(p, OnFetchResolved(Ctx(p), r))
    /\ UNCHANGED <<variant, health, bk, md>>

\* setTimeout's callback runs
TimerFires(p) ==
    /\ pc[p] = "delay"
    /\ Commit(p, OnTimer(Ctx(p)))
    /\ UNCHANGED <<variant, health, bk, md>>

\* response.json() settles
BodySettles(p) ==
    /\ pc[p] = "body"
    /\ \E b \in Bodies(variant, loc[p].reading), hasSourcesElement \in BOOLEAN :
          Commit(p, OnBody(Complete(Ctx(p)), b, hasSourcesElement))
    /\ UNCHANGED <<variant, health, bk, md>>

\* script.js 145-148: DOMContentLoaded, fetch(healthUrl)
HealthProbe ==
    /\ variant = "vercel"
    /\ health = "idle"
    /\ health' = "pending"
    /\ net' = net \cup {Request(ProbeOwner, 1, "health", {})}
    /\ UNCHANGED <<variant, disabled, label, output, pc, loc, frame, log, bk, md>>

\* variant of HealthOutcome: no catch around the probe, a rejected fetch is
\* an unhandled rejection
HealthOutcomeUncaught(settled) ==
    CASE settled = "ok" -> "logged"
      [] settled = "notOk" -> "silent"
      [] OTHER -> "unhandled"

\* script.js 149-154: console.log when response.ok, nothing for another
\* status, console.warn in the catch when fetch rejected
HealthOutcome(settled) ==
    CASE settled = "ok" -> "logged"
      [] settled = "notOk" -> "silent"
      [] OTHER -> "warned"

\* the probe's fetch settles
HealthSettles ==
    /\ health = "pending"
    /\ \E settled \in {"ok", "notOk", "rejected"} : health' = HealthOutcome(settled)
    /\ net' = {r \in net : r.p # ProbeOwner}
    /\ UNCHANGED <<variant, disabled, label, output, pc, loc, frame, log, bk, md>>

Next ==
    \/ \E p \in Procs : Click(p)
    \/ \E p \in Procs : ImageSettles(p)
    \/ \E p \in Procs : FetchRejects(p)
    \/ \E p \in Procs : FetchResolves(p)
    \/ \E p \in Procs : TimerFires(p)
    \/ \E p \in Procs : BodySettles(p)
    \/ HealthProbe
    \/ HealthSettles

\* no renderer call has been made
MdInit == md = [fn |-> "none", text |-> <<>>, html |-> <<>>]

Init == OrchInit /\ BkInit /\ MdInit

Spec == Init /\ [][Next]_vars

\* the stand-alone helper, the page idle
InitBackoff ==
    /\ BkInit
    /\ MdInit
    /\ variant = "flask"
    /\ disabled = FALSE
    /\ label = "Get Recipes"
    /\ output = Plain("initial")
    /\ pc = [p \in Procs |-> "idle"]
    /\ loc = [p \in Procs |-> InitLoc]
    /\ frame = [p \in Procs |-> NoFrame]
    /\ log = [p \in Procs |-> <<>>]
    /\ net = {}
    /\ health = "idle"

NextBackoff == BkCall \/ BkFnResolves \/ BkFnRejects \/ BkTimer

SpecBackoff == InitBackoff /\ [][NextBackoff]_vars

----------------------------------------------------------------------------
(* The markdown renderers on their own: any text, either renderer *)

\* characters of the texts given to the renderers
MdChars == {"*", " ", "a", "\n", "#", "-"}

\* lines of the longer texts: list items, headings, rules, emphasis, prose,
\* and text that already holds list markup
MdLines ==
    {<<"*", " ", "a">>, <<"*", " ", "b">>, <<"a">>, <<>>, <<"-", "-", "-">>,
     <<"#", " ", "a">>, <<"*", "*", "a", "*", "*">>, <<"*", "a", "*">>,
     <<"*", "*", "a">>, <<"<li>", "a", "</li>">>}

\* the texts a renderer is called with
MdTexts ==
    UNION {[1 .. n -> MdChars] : n \in 0 .. MaxTextLen}
    \cup UNION {{Join(ls) : ls \in [1 .. n -> MdLines]} : n \in 1 .. MaxLines}

\* a caller calls simpleMarkdownToHtml(text)
MdSimple ==
    /\ md.fn = "none"
    /\ md' = [md EXCEPT !.fn = "simpleMarkdownToHtml",
                        !.html = SimpleMarkdownToHtml(md.text)]
    /\ UNCHANGED <<orchVars, bk>>

\* a caller calls markdownToHtml(markdown)
MdFull ==
    /\ md.fn = "none"
    /\ md' = [md EXCEPT !.fn = "markdownToHtml", !.html = MarkdownToHtml(md.text)]
    /\ UNCHANGED <<orchVars, bk>>

\* the page idle, a text about to be rendered
InitMarkdown ==
    /\ BkInit
    /\ \E text \in MdTexts : md = [fn |-> "none", text |-> text, html |-> <<>>]
    /\ variant = "vercel"
    /\ disabled = FALSE
    /\ label = "Get Recipes"
    /\ output = Plain("initial")
    /\ pc = [p \in Procs |-> "idle"]
    /\ loc = [p \in Procs |-> InitLoc]
    /\ frame = [p \in Procs |-> NoFrame]
    /\ log = [p \in Procs |-> <<>>]
    /\ net = {}
    /\ health = "idle"

NextMarkdown == MdSimple \/ MdFull

SpecMarkdown == InitMarkdown /\ [][NextMarkdown]_vars

----------------------------------------------------------------------------
(* Properties *)

\* positions of the events e in a log
At(l, e) == {i \in DOMAIN l : l[i].e = e}

\* positions of the events that change the submit control or its label
ControlAt(l) == {i \in DOMAIN l : l[i].e \in {"disable", "enable", "label"}}

\* positions of the network calls to an endpoint
FetchAt(l, endpoint) == {i \in DOMAIN l : l[i] = Event("fetch", endpoint)}

\* no other invocation is running
Alone(p) == \A q \in Procs \ {p} : Free(q)

\* the typed text is empty once trimmed
Blank(raw) == \A i \in DOMAIN raw : raw[i] = " "

\* C1: every accepted invocation of getRecipes re-enables the submit control
\* and restores the default label exactly once, on whatever path it ends, and
\* changes neither afterwards; before it ends it has done neither.
C1_ResetExactlyOnce ==
    \A p \in Procs :
        LET l == log[p]
            resets == At(l, "enable") \cup {i \in DOMAIN l : l[i] = Event("label", "Get Recipes")}
        IN loc[p].accepted =>
              /\ pc[p] # "done" => resets = {}
              /\ pc[p] = "done" =>
                    /\ Cardinality(At(l, "enable")) = 1
                    /\ Cardinality(resets) = 2
                    /\ \A i \in ControlAt(l), j \in At(l, "enable") :
                          i > j => l[i] = Event("label", "Get Recipes")
                    /\ Alone(p) => ~disabled /\ label = "Get Recipes"

\* an accepted invocation that ended on the image-read failure path
C1_Witness ==
    \E p \in Procs :
        pc[p] = "done" /\ loc[p].accepted /\ output.kind = "imageError"

\* C2: an invocation with a blank prompt and no image writes the warning,
\* issues no network call and never enters the loading state.
C2_RejectedWithoutSideEffects ==
    \A p \in Procs :
        (pc[p] # "idle" /\ Blank(loc[p].raw) /\ ~loc[p].image) =>
            /\ pc[p] = "done"
            /\ ~loc[p].accepted
            /\ log[p] = <<Event("output", "warning")>>
            /\ {r \in net : r.p = p} = {}
            /\ Alone(p) => output = Plain("warning") /\ ~disabled /\ label = "Get Recipes"

\* a rejected invocation whose prompt held white space only
C2_Witness ==
    \E p \in Procs :
        pc[p] = "done" /\ loc[p].raw = <<" ">> /\ ~loc[p].image
        /\ output.kind = "warning"

\* C3: with maxRetries = N >= 1 and fn failing every time, the helper throws
\* the error of the N-th invocation itself, after exactly N invocations and
\* N-1 delays, none after the last failure.
C3_AllAttemptsFail ==
    LET f == bk.f
        h == f.hist
        N == f.maxRetries
    IN (N >= 1 /\ CountEv(h, "resolved") = 0) =>
          /\ CountEv(h, "invoke") <= N
          /\ f.st # "returned"
          /\ (CountEv(h, "rejected") = N) <=> (f.st = "thrown")
          /\ f.st = "thrown" =>
                /\ CountEv(h, "invoke") = N
                /\ h[Len(h)].ev = "rejected"
                /\ f.err = h[Len(h)].x
                /\ CountEv(h, "delay") = N - 1

\* three failed attempts, an earlier one with another error than the last
C3_Witness ==
    /\ bk.f.st = "thrown"
    /\ bk.f.maxRetries = 3
    /\ \E i \in DOMAIN bk.f.hist :
          bk.f.hist[i].ev = "rejected" /\ bk.f.hist[i].x # bk.f.err

\* C4: when fn fails k-1 times and then succeeds (k <= N), the helper returns
\* the value of invocation k, fn ran exactly k times and never after the
\* success, and one delay lies between each two consecutive invocations.
C4_SucceedsOnAttemptK ==
    LET f == bk.f
        h == f.hist
        k == CountEv(h, "invoke")
    IN CountEv(h, "resolved") >= 1 =>
          /\ f.st = "returned"
          /\ CountEv(h, "resolved") = 1
          /\ h[Len(h)].ev = "resolved"
          /\ f.val = h[Len(h)].x
          /\ f.val \in FnValues
          /\ 1 <= k /\ k <= f.maxRetries
          /\ CountEv(h, "rejected") = k - 1
          /\ CountEv(h, "delay") = k - 1
          /\ \A i \in DOMAIN h :
                (h[i].ev = "invoke" /\ i > 1) =>
                    /\ i > 4
                    /\ h[i - 1].ev = "elapsed"
                    /\ h[i - 2].ev = "delay"
                    /\ h[i - 3].ev = "rejected"
                    /\ h[i - 4].ev = "invoke"

\* success on the third of four allowed attempts
C4_Witness ==
    /\ bk.f.st = "returned"
    /\ bk.f.maxRetries = 4
    /\ CountEv(bk.f.hist, "invoke") = 3
    /\ CountEv(bk.f.hist, "resolved") = 1

\* the analyze response of invocation p was a success with ingredients
AnalyzeSucceeded(p) ==
    /\ loc[p].response # Undefined
    /\ loc[p].response.ok
    /\ loc[p].result.parse = "obj"
    /\ loc[p].result.success
    /\ loc[p].result.ingredients.t = "array"
    /\ Len(loc[p].result.ingredients.items) > 0

\* C5: the recipe call is issued only after the analyze call ended in a 2xx
\* response with success true and a non-empty ingredients list, and an
\* invocation never has two requests in flight.
C5_RecipesAfterAnalyzeOneAtATime ==
    \A p \in Procs :
        LET l == log[p]
            mine == {r \in net : r.p = p}
        IN /\ Cardinality(mine) <= 1
           /\ (FetchAt(l, "get_recipes") # {} \/ \E r \in mine : r.endpoint = "get_recipes") =>
                 /\ AnalyzeSucceeded(p)
                 /\ \A r \in mine : r.endpoint = "get_recipes"
                 /\ \A i \in FetchAt(l, "get_recipes") :
                       /\ \E j \in FetchAt(l, "analyze") : j < i
                       /\ \E j \in DOMAIN l :
                             j < i /\ l[j] = Event("output", "ingredientsFinding")

\* a recipe request in flight
C5_Witness ==
    \E p \in Procs :
        /\ pc[p] = "fetch"
        /\ \E r \in net : r.p = p /\ r.endpoint = "get_recipes"
        /\ loc[p].result.ingredients.items = <<"rice", "egg">>

\* the last output event of a log
LastOutput(l) ==
    LET o == At(l, "output")
    IN IF o = {} THEN "none" ELSE l[CHOOSE i \in o : \A j \in o : j <= i].a

\* C6: a failure raised anywhere in the chain of an accepted invocation is
\* caught inside getRecipes: the invocation returns normally and the output
\* region is replaced by the error block carrying that error's message, also
\* when ingredients had been rendered before.
C6_FailuresCaughtAndRendered ==
    \A p \in Procs :
        loc[p].accepted =>
           /\ pc[p] \in {"image", "fetch", "delay", "body", "done"}
           /\ loc[p].thrown # NoMsg =>
                 /\ pc[p] = "done"
                 /\ LastOutput(log[p]) = "error"
                 /\ Alone(p) => output = Out("error", loc[p].thrown, <<>>, 0, <<>>, -1, "")
           /\ pc[p] = "done" =>
                 /\ (LastOutput(log[p]) = "error") <=> (loc[p].thrown # NoMsg)
                 /\ (loc[p].response # Undefined /\ ~loc[p].response.ok) =>
                       loc[p].thrown # NoMsg
                 /\ (loc[p].recipesResponse # Undefined /\ ~loc[p].recipesResponse.ok) =>
                       loc[p].thrown # NoMsg
                 /\ loc[p].result.parse \in {"bad", "null"} => loc[p].thrown # NoMsg
                 /\ loc[p].recipesResult.parse \in {"bad", "null"} =>
                       loc[p].thrown # NoMsg

\* a failure of the recipe phase, after the ingredients had been rendered
C6_Witness ==
    \E p \in Procs :
        /\ pc[p] = "done"
        /\ loc[p].stage = "recipes"
        /\ loc[p].thrown.kind = "network"
        /\ output.kind = "error"
        /\ \E i \in DOMAIN log[p] : log[p][i] = Event("output", "ingredientsFinding")

\* C7: an invocation with a non-blank prompt or an image is accepted and
\* enters the loading state (control disabled, working label, progress
\* message) exactly once, before its first network call, and never disables
\* the control again.
C7_LoadingOnceBeforeNetwork ==
    \A p \in Procs :
        LET l == log[p]
        IN (pc[p] # "idle" /\ (~Blank(loc[p].raw) \/ loc[p].image)) =>
              /\ loc[p].accepted
              /\ Len(l) >= 3
              /\ l[1] = Event("disable", "")
              /\ l[2].e = "label" /\ l[2].a # "Get Recipes"
              /\ l[3] = Event("output", "progress")
              /\ At(l, "disable") = {1}
              /\ {i \in DOMAIN l : l[i] = Event("output", "progress")} = {3}
              /\ \A i \in At(l, "fetch") : i > 3

\* an image with a blank prompt, its request already sent
C7_Witness ==
    \E p \in Procs :
        /\ loc[p].raw = <<" ">>
        /\ loc[p].image
        /\ At(log[p], "fetch") # {}

\* C8: when the analyze call succeeds with an empty ingredients list, the
\* output shows the "no ingredients" message, no further network call is
\* made, and the invocation ends with the control re-enabled.
C8_EmptyIngredientsEndsInteraction ==
    \A p \in Procs :
        LET l == log[p]
            n == Len(l)
        IN (/\ loc[p].response # Undefined
            /\ loc[p].response.ok
            /\ loc[p].result.parse = "obj"
            /\ loc[p].result.success
            /\ loc[p].result.ingredients = Array(<<>>)) =>
              /\ pc[p] = "done"
              /\ FetchAt(l, "get_recipes") = {}
              /\ {r \in net : r.p = p} = {}
              /\ n >= 3
              /\ SubSeq(l, n - 2, n) = <<Event("output", "noIngredients"),
                                         Event("enable", ""),
                                         Event("label", "Get Recipes")>>
              /\ Alone(p) =>
                    output = Plain("noIngredients") /\ ~disabled /\ label = "Get Recipes"

\* an invocation that ended on the empty ingredients list
C8_Witness ==
    \E p \in Procs :
        /\ pc[p] = "done"
        /\ loc[p].response # Undefined
        /\ loc[p].result.success
        /\ loc[p].result.ingredients = Array(<<>>)
        /\ output.kind = "noIngredients"

\* C9: when the recipe call succeeds with an empty recipes list, the final
\* output holds the "no recipes found" message together with all detected
\* ingredients, in the order and number the analyze call returned them.
C9_NoRecipesKeepsIngredients ==
    \A p \in Procs :
        (/\ loc[p].recipesResponse # Undefined
         /\ loc[p].recipesResponse.ok
         /\ loc[p].recipesResult.parse = "obj"
         /\ loc[p].recipesResult.success
         /\ loc[p].recipesResult.recipes = Array(<<>>)) =>
           /\ pc[p] = "done"
           /\ LastOutput(log[p]) = "ingredientsNoRecipes"
           /\ Alone(p) =>
                 output = Out("ingredientsNoRecipes", NoMsg,
                              loc[p].result.ingredients.items,
                              Len(loc[p].result.ingredients.items), <<>>, -1, "")

\* no recipes for two ingredients returned as rice, egg
C9_Witness ==
    \E p \in Procs :
        /\ pc[p] = "done"
        /\ loc[p].recipesResult.success
        /\ loc[p].recipesResult.recipes = Array(<<>>)
        /\ loc[p].result.ingredients.items = <<"rice", "egg">>
        /\ output.kind = "ingredientsNoRecipes"

\* the message is built from the status line of response r
StatusDerived(m, r) ==
    /\ m.kind \in {"Server error", "Backend call failed", "API call failed"}
    /\ m.text = r.statusText
    /\ m.kind = "Server error" => m.status = r.status

\* C10: when the analyze call returns a non-2xx status and the body is not
\* parseable JSON or has no error member, the invocation ends with the error
\* block showing a message built from the HTTP status, makes no follow-up
\* network call and re-enables the control.
C10_NonOkShowsStatusMessage ==
    \A p \in Procs :
        LET l == log[p]
        IN (/\ pc[p] = "done"
            /\ loc[p].response # Undefined
            /\ ~loc[p].response.ok
            /\ loc[p].errorData.error = "") =>
              /\ FetchAt(l, "get_recipes") = {}
              /\ Cardinality(At(l, "fetch")) = 1 + Cardinality(At(l, "delay"))
              /\ Alone(p) =>
                    /\ output.kind = "error"
                    /\ StatusDerived(output.msg, loc[p].response)
                    /\ ~disabled
                    /\ label = "Get Recipes"

\* a 2xx response whose body was read by invocation p said success: false
\* (the direct-API revision reads no such member)
SuccessFalseRead(p) ==
    /\ pc[p] = "done"
    /\ variant # "gemini"
    /\ \/ /\ loc[p].reading = "result"
          /\ loc[p].result.parse = "obj"
          /\ ~loc[p].result.success
       \/ /\ loc[p].reading = "recipesResult"
          /\ loc[p].recipesResult.parse = "obj"
          /\ ~loc[p].recipesResult.success

\* C11: when a 2xx response to the analyze call or to the recipe call says
\* success: false, the invocation ends in the error block with a backend
\* error, and the fetch of the failed call is the last network call it made.
C11_SuccessFalseIsBackendError ==
    \A p \in Procs :
        LET l == log[p]
            n == Len(l)
        IN SuccessFalseRead(p) =>
              /\ loc[p].thrown.kind \in {"body", "literal"}
              /\ n >= 4
              /\ l[n - 3].e = "fetch"
              /\ l[n - 2] = Event("output", "error")
              /\ \A r \in net : r.p # p
              /\ Alone(p) => output.kind = "error"

\* the body of a 2xx analyze response read by invocation p lacks what the
\* revision renders: the ingredients array, the analysis text, the candidate text
FieldsMissing(p) ==
    LET b == loc[p].result
    IN /\ pc[p] = "done"
       /\ loc[p].reading = "result"
       /\ b.parse = "obj"
       /\ CASE variant = "flask" -> b.success /\ b.ingredients.t # "array"
            [] variant = "gemini" -> b.text = ""
            [] OTHER -> b.success /\ b.pa = "" /\ b.ia = ""

\* C12: when a 2xx response with success true lacks the expected result
\* fields, the invocation fails and ends in the error block; no success
\* result is rendered.
C12_MissingFieldsIsBackendError ==
    \A p \in Procs :
        FieldsMissing(p) =>
           /\ loc[p].thrown # NoMsg
           /\ LastOutput(log[p]) = "error"
           /\ Alone(p) => output.kind = "error"

\* the failure invocation p surfaced is a network failure, a non-2xx status
\* or a malformed body of a call made through withExponentialBackoff
RetryHelperFailure(p) ==
    /\ UsesBackoff(variant)
    /\ pc[p] = "done"
    /\ loc[p].thrown.kind \in {"network", "Backend call failed", "Recipe fetch failed",
                               "API call failed", "SyntaxError"}

\* C13: a call routed through the retry helper is re-attempted after a
\* backoff delay on every kind of failure (network failure, non-2xx status,
\* malformed body): when such a failure is surfaced, the call was attempted
\* DefaultMaxRetries times with a delay between consecutive attempts.
C13_EveryFailureKindRetried ==
    \A p \in Procs :
        LET l == log[p]
            calls == FetchAt(l, Endpoint(variant, loc[p].stage))
        IN RetryHelperFailure(p) =>
              /\ Cardinality(calls) = DefaultMaxRetries
              /\ \A i \in calls :
                    (\E j \in calls : j < i) => l[i - 1] = Event("delay", "")

\* the get_recipes response read by invocation p carried a non-empty list
RecipesReturned(p) ==
    LET b == loc[p].recipesResult
    IN /\ pc[p] = "done"
       /\ loc[p].reading = "recipesResult"
       /\ b.parse = "obj"
       /\ b.success
       /\ b.recipes.t = "array"
       /\ Len(b.recipes.items) > 0

\* C14: when the recipe call succeeds with a non-empty list, the output shows
\* one card per recipe, in input order and numbered from 1, with the recipe's
\* title, all its ingredients in order and all its instructions in order.
C14_RecipesRenderedInFull ==
    \A p \in Procs :
        LET recipes == loc[p].recipesResult.recipes.items
        IN (RecipesReturned(p) /\ Alone(p)) =>
              /\ output.kind = "recipes"
              /\ Len(output.cards) = Len(recipes)
              /\ \A k \in DOMAIN recipes :
                    /\ output.cards[k].num = k
                    /\ output.cards[k].title = recipes[k].title
                    /\ output.cards[k].shown = recipes[k].ingredients.items
                    /\ output.cards[k].steps = recipes[k].instructions

\* number of positions of a text that hold a token of the set T
Tokens(s, T) == Cardinality({i \in DOMAIN s : s[i] \in T})

\* the text holds markdown only: no markup of its own
PlainMarkdown(s) == \A i \in DOMAIN s : s[i] \notin Tags

\* a line starting with '* '
ItemLine(line) == StartsWith(line, <<"*", " ">>)

\* the first lines of the maximal runs of consecutive item lines
RunStarts(lines) ==
    {k \in DOMAIN lines : ItemLine(lines[k]) /\ (k = 1 \/ ~ItemLine(lines[k - 1]))}

ItemTags == {"<li class=\"ml-6\">", "<li class=\"list-disc ml-6\">"}

ListTags == {"<ul class=\"list-disc my-2\">", "<ul>"}

\* C15: a renderer turns every line starting with '* ' into a list item and
\* wraps every maximal run of consecutive list items in exactly one list
\* container: the output holds one item per such line and one container per run.
C15_ListItemsWrappedOncePerRun ==
    LET lines == Split(md.text)
    IN (md.fn # "none" /\ PlainMarkdown(md.text)) =>
          /\ Tokens(md.html, ItemTags) = Cardinality({k \in DOMAIN lines : ItemLine(lines[k])})
          /\ Tokens(md.html, ListTags) = Cardinality(RunStarts(lines))
          /\ Tokens(md.html, {"</ul>"}) = Cardinality(RunStarts(lines))

BlockTags ==
    ItemTags \cup ListTags
    \cup {"<h3 class=\"text-xl font-semibold mt-4 mb-2\">",
          "<h2 class=\"text-2xl font-bold mt-6 mb-3 text-blue-800\">",
          "<h1 class=\"text-3xl font-extrabold mt-8 mb-4\">",
          "<h1 class=\"text-3xl font-extrabold mt-8 mb-4 text-gray-900\">",
          "<hr class=\"border-t-2 border-gray-200 my-6\"/>",
          "<hr class=\"border-t-2 border-gray-200 my-8\"/>"}

ParagraphTags == {"<p class=\"mb-2\">", "<p>", "</p>"}

\* a line of the output is a block element outside any paragraph, or blank,
\* or one paragraph around text that is no block element
WellWrapped(line) ==
    IF line # <<>> /\ Head(line) \in BlockTags
    THEN Tokens(line, ParagraphTags) = 0
    ELSE IF Trim(line) = <<>> THEN TRUE
    ELSE /\ Len(line) >= 3
         /\ Head(line) \in {"<p class=\"mb-2\">", "<p>"}
         /\ line[Len(line)] = "</p>"
         /\ Tokens(line, ParagraphTags) = 2
         /\ line[2] \notin BlockTags

\* C16: in the output of a renderer every non-empty line that starts with no
\* block tag is wrapped in exactly one paragraph, no heading, list item or
\* horizontal rule is inside a paragraph, and blank lines yield no element.
C16_ParagraphsAroundProseOnly ==
    LET lines == Split(md.html)
    IN (md.fn # "none" /\ PlainMarkdown(md.text)) =>
          \A k \in DOMAIN lines : WellWrapped(lines[k])

\* the asterisks of a line are one lone '*' or one lone '**'
LoneMarker(line) ==
    LET at == {i \in DOMAIN line : line[i] = "*"}
    IN /\ at # {}
       /\ ~ItemLine(line)
       /\ \/ Cardinality(at) = 1
          \/ Cardinality(at) = 2 /\ \E i \in at : i + 1 \in at

\* C17: emphasis markers without a partner stay literal text: when every
\* asterisk of the text is a lone '*' or a lone '**' on its line, the output
\* has no emphasis element and holds the same asterisks.
C17_UnmatchedMarkersStayLiteral ==
    LET lines == Split(md.text)
    IN (/\ md.fn # "none"
        /\ PlainMarkdown(md.text)
        /\ \E k \in DOMAIN lines : LoneMarker(lines[k])
        /\ \A k \in DOMAIN lines :
              LoneMarker(lines[k]) \/ Tokens(lines[k], {"*"}) = 0) =>
          /\ Tokens(md.html, {"<strong>", "</strong>", "<em>", "</em>"}) = 0
          /\ Tokens(md.html, {"*"}) = Tokens(md.text, {"*"})

\* the fields named n of a request
Field(r, n) == {f \in r.fields : f.name = n}

\* C18: every request to the analyze endpoint carries a multipart payload
\* with the field image exactly when a file is selected and the field prompt
\* exactly when the trimmed text is non-empty, its value being the trimmed
\* text; a payload without fields is never sent.
C18_PayloadCarriesTheInput ==
    \A r \in net :
        r.endpoint = "analyze" =>
           LET raw == loc[r.p].raw
           IN /\ r.fields # {}
              /\ (Field(r, "image") # {}) <=> loc[r.p].image
              /\ (Field(r, "prompt") # {}) <=> ~Blank(raw)
              /\ \A f \in Field(r, "prompt") : f.value = Trim(raw) /\ f.value # <<>>
              /\ r.fields = Field(r, "image") \cup Field(r, "prompt")

\* a retried request that carries the image and a prompt typed with spaces
\* around it
C18_Witness ==
    \E r \in net :
        /\ r.endpoint = "analyze"
        /\ r.n = 2
        /\ loc[r.p].raw = <<" ", "a">>
        /\ Cardinality(r.fields) = 2

\* C19: a step of the health probe, whatever its outcome and whatever
\* getRecipes is doing, leaves the output region, the submit control and its
\* label as they are, and a failed probe is handled inside the probe.
C19_ProbeLeavesThePageAlone ==
    [][health' # health =>
          /\ output' = output
          /\ disabled' = disabled
          /\ label' = label
          /\ pc' = pc
          /\ health' \in {"pending", "logged", "silent", "warned"}]_vars

\* the probe failed while an interaction was waiting for its response
C19_Witness ==
    /\ health = "warned"
    /\ disabled
    /\ \E p \in Procs : pc[p] = "body" /\ output.kind = "progress"

\* the invocations that have started and not returned
InFlight == {p \in Procs : ~Free(p)}

\* C20: with getRecipes started by clicks on the enabled submit control only,
\* at most one invocation is in flight, and the control is disabled whenever
\* an invocation waits for a response, a body, a file read or a backoff timer.
C20_OneInteractionControlDisabled ==
    /\ Cardinality(InFlight) <= 1
    /\ InFlight # {} => disabled
    /\ \A r \in net : r.p \in Procs => (disabled /\ r.p \in InFlight)
    /\ \A p \in Procs : frame[p].st = "waiting" => disabled

\* a backoff delay pending before the recipe call is retried
C20_Witness ==
    \E p \in Procs :
        /\ pc[p] = "delay"
        /\ frame[p].st = "waiting"
        /\ loc[p].stage = "recipes"
        /\ disabled

----------------------------------------------------------------------------
(* The page under the assumption that whatever an invocation waits for      *)
(* settles: every fetch resolves or rejects, every body read, file read    *)
(* and timer completes. Clicks and the probe stay optional.                *)

\* the step an invocation is suspended on: the file read, the fetch, the
\* backoff timer or the body read completes
Settles(p) ==
    \/ ImageSettles(p)
    \/ FetchRejects(p)
    \/ FetchResolves(p)
    \/ TimerFires(p)
    \/ BodySettles(p)

\* an invocation is suspended on one thing at a time, and that thing settles
SpecLive == Init /\ [][Next]_vars /\ WF_vars(\E p \in Procs : Settles(p))

\* C21: if every network call, body read and backoff delay completes, an
\* accepted invocation that is in flight eventually returns with the submit
\* control enabled and the label 'Get Recipes', after an error as after a
\* success, so that a new click is possible.
C21_EveryInteractionEnds ==
    (\E p \in Procs : loc[p].accepted /\ ~Free(p)) ~>
        (/\ \A p \in Procs : Free(p)
         /\ ~disabled
         /\ label = "Get Recipes")

\* an invocation that failed in its recipe phase, after retries, has ended
C21_Witness ==
    \E p \in Procs :
        /\ pc[p] = "done"
        /\ loc[p].stage = "recipes"
        /\ loc[p].thrown.kind = "network"
        /\ Cardinality(At(log[p], "delay")) >= 2
        /\ ~disabled
        /\ label = "Get Recipes"

\* the invocations of fn not yet settled, after the first n events of a history
Outstanding(h, n) ==
    CountEv(SubSeq(h, 1, n), "invoke")
      - CountEv(SubSeq(h, 1, n), "resolved") - CountEv(SubSeq(h, 1, n), "rejected")

\* C22: within one call of the helper at most one invocation of fn is
\* outstanding at any time; an invocation after the first starts only when
\* the one before it has failed and the delay that follows that failure has
\* elapsed, and none starts while the timer is pending.
C22_AttemptsStrictlySequential ==
    LET f == bk.f
        h == f.hist
    IN /\ \A n \in 0 .. Len(h) : Outstanding(h, n) \in {0, 1}
       /\ (Outstanding(h, Len(h)) = 1) <=> (f.st = "calling")
       /\ f.st = "waiting" => (h # <<>> /\ h[Len(h)].ev = "delay")
       /\ \A n \in DOMAIN h :
             (h[n].ev = "invoke" /\ n > 1) =>
                /\ n > 4
                /\ h[n - 1].ev = "elapsed"
                /\ h[n - 2].ev = "delay"
                /\ h[n - 3].ev = "rejected"
                /\ h[n - 4].ev = "invoke"

\* the third attempt outstanding, two failures and two elapsed delays behind it
C22_Witness ==
    /\ bk.f.st = "calling"
    /\ bk.f.i = 2
    /\ CountEv(bk.f.hist, "delay") = 2
    /\ CountEv(bk.f.hist, "invoke") = 3

\* the delays of a history, in the order they were waited for
DelaysOf(h) == SelectSeq(h, LAMBDA e : e.ev = "delay")

\* C23: the delay after failed attempt i (from 0) is 1000 * 2^i ms in the
\* revision without jitter and 1000 * 2^i + j ms with 0 <= j < 1000 in the
\* revisions with jitter, and whatever the jitters, no delay of a call is
\* shorter than the one before it.
C23_DelaysDoubleAndNeverShrink ==
    LET ds == DelaysOf(bk.f.hist)
    IN /\ Len(ds) <= bk.f.i + 1
       /\ \A k \in DOMAIN ds :
             /\ k - 1 < bk.f.maxRetries - 1
             /\ IF bk.jitter
                THEN ds[k].d >= 1000 * 2 ^ (k - 1) /\ ds[k].d < 1000 * 2 ^ (k - 1) + 1000
                ELSE ds[k].d = 1000 * 2 ^ (k - 1)
             /\ k > 1 => ds[k].d >= ds[k - 1].d

\* the largest jitter after the first failure, the smallest after the second
C23_Witness ==
    LET ds == DelaysOf(bk.f.hist)
    IN /\ bk.jitter
       /\ Len(ds) = 3
       /\ ds[1].d = 1999
       /\ ds[2].d = 2000

RuleTags ==
    {"<hr class=\"border-t-2 border-gray-200 my-6\"/>",
     "<hr class=\"border-t-2 border-gray-200 my-8\"/>"}

\* C24: a renderer writes a horizontal rule for a line exactly when the line
\* is '---' and nothing else: the output holds as many rules as the text has
\* such lines, and a line that only begins with '---' gives none.
C24_RuleOnlyForBareDashes ==
    LET lines == Split(md.text)
    IN (md.fn # "none" /\ PlainMarkdown(md.text)) =>
          Tokens(md.html, RuleTags)
             = Cardinality({k \in DOMAIN lines : lines[k] = <<"-", "-", "-">>})

----------------------------------------------------------------------------
(* Overlapping invocations: getRecipes is an ordinary global function and
   reads no flag of its own before it starts *)

\* the retries the overlapping invocations may take together
MaxOverlapRetries == 1

\* what the p-th overlapping call is made with: no image and a prompt of
\* its own, so that the requests of two calls differ
OverlapPrompt(p) == [k \in 1 .. p |-> "a"]

\* retries taken so far by all the invocations
RetriesTaken(l) ==
    LET RECURSIVE Sum(_)
        Sum(S) == IF S = {} THEN 0
                  ELSE LET p == CHOOSE q \in S : TRUE
                       IN Cardinality(At(l[p], "delay")) + Sum(S \ {p})
    IN Sum(DOMAIN l)

\* getRecipes() is called, by the click handler or by any other caller: the
\* function body starts whatever the state of the submit control
Invoke(p) ==
    /\ pc[p] = "idle"
    /\ \A q \in Procs : q < p => pc[q] # "idle"
    /\ Commit(p, GetRecipes(Fresh(p), OverlapPrompt(p), FALSE))
    /\ UNCHANGED <<variant, health, bk, md>>

NextReentrant ==
    \/ \E p \in Procs : Invoke(p)
    \/ \E p \in Procs : FetchRejects(p) /\ RetriesTaken(log') <= MaxOverlapRetries
    \/ \E p \in Procs : FetchResolves(p)
    \/ \E p \in Procs : TimerFires(p)
    \/ \E p \in Procs : BodySettles(p)

SpecReentrant == Init /\ [][NextReentrant]_vars

\* the position of the last write to the output region in a log (0: none)
LastOutputAt(l) == Greatest(At(l, "output") \cup {0})

\* C25: getRecipes has no re-entrancy guard. A call started while another
\* invocation is in flight (the submit control disabled) is accepted and
\* issues its own request to the analysis endpoint; and the task in which an
\* invocation ends writes the output region itself, so that the region holds
\* the result of whichever invocation finished last.
C25_OverlappingCallsBothRun ==
    [][\A p \in Procs :
          /\ (pc[p] = "idle" /\ pc'[p] # "idle") =>
                /\ loc'[p].accepted
                /\ pc'[p] = "fetch"
                /\ \E r \in net' \ net :
                      /\ r.p = p
                      /\ r.endpoint = Endpoint(variant, "analyze")
                      /\ \E f \in r.fields : f.value = OverlapPrompt(p)
                /\ \A q \in Procs \ {p} : {r \in net : r.p = q} \subseteq net'
          /\ (~Free(p) /\ pc'[p] = "done") =>
                /\ LastOutputAt(log'[p]) > Len(log[p])
                /\ output'.kind = LastOutput(log'[p])
      ]_vars

\* the first invocation has ended and re-enabled the submit control while
\* the request of the second one is still pending
C25_Witness ==
    /\ ~disabled
    /\ label = "Get Recipes"
    /\ pc[1] = "done" /\ loc[1].accepted
    /\ pc[2] = "fetch" /\ loc[2].accepted
    /\ \E r \in net : r.p = 2
    /\ output.kind = LastOutput(log[1])

\* C26: one interaction issues a bounded number of requests. In the Flask
\* revision at most 3 to the analyze endpoint, then at most 3 to the recipe
\* endpoint, none to the recipe endpoint unless the analysis succeeded, and
\* no other; in the revisions that call fetch directly exactly one, to the
\* analyze endpoint. An invocation that was not accepted issues none.
C26_RequestsBounded ==
    \A p \in Procs :
        LET l == log[p]
            A == FetchAt(l, "analyze")
            R == FetchAt(l, "get_recipes")
        IN /\ ~loc[p].accepted => At(l, "fetch") = {}
           /\ (loc[p].accepted /\ variant = "flask") =>
                 /\ At(l, "fetch") = A \cup R
                 /\ Cardinality(A) >= 1 /\ Cardinality(A) <= 3
                 /\ Cardinality(R) <= 3
                 /\ \A i \in A, j \in R : i < j
                 /\ R # {} => AnalyzeSucceeded(p)
           /\ (loc[p].accepted /\ ~UsesBackoff(variant)) =>
                 /\ At(l, "fetch") = A
                 /\ Cardinality(A) = 1

\* a Flask interaction that ended after six requests: the analysis succeeded
\* at the third attempt and the recipe call failed three times
C26_Witness ==
    \E p \in Procs :
        /\ variant = "flask"
        /\ pc[p] = "done"
        /\ Cardinality(FetchAt(log[p], "analyze")) = 3
        /\ Cardinality(FetchAt(log[p], "get_recipes")) = 3
        /\ output.kind = "error"

\* what the output region may hold once an interaction is over
FinalKinds ==
    {"analysis", "markdown", "recipes", "noIngredients", "ingredientsNoRecipes",
     "error", "imageError"}

\* C27: once an accepted interaction has ended and the submit control is
\* enabled again, the output region holds a final result (the rendered
\* analysis or recipes, the no-ingredients message, the ingredients with the
\* no-recipes message, or an error block), written by that interaction, and
\* neither the progress message nor the ingredients with the "Finding
\* recipes..." notice.
C27_FinalOutputAtEnd ==
    \A p \in Procs :
        (loc[p].accepted /\ pc[p] = "done" /\ Alone(p)) =>
            /\ ~disabled
            /\ output.kind \in FinalKinds
            /\ output.kind \notin {"progress", "ingredientsFinding"}
            /\ output.kind = LastOutput(log[p])

\* a Flask interaction whose recipe call failed: the ingredients with the
\* "Finding recipes..." notice were shown, and the error block replaced them
C27_Witness ==
    \E p \in Procs :
        /\ variant = "flask"
        /\ loc[p].accepted /\ pc[p] = "done"
        /\ \E i \in At(log[p], "output") : log[p][i].a = "ingredientsFinding"
        /\ loc[p].stage = "recipes"
        /\ output.kind = "error"
        /\ ~disabled

\* C28: withExponentialBackoff called with maxRetries <= 0 never invokes fn
\* and never waits, and returns undefined; called with maxRetries = 1 it
\* invokes fn once, waits for no delay, and returns fn's value or throws
\* fn's error.
C28_DegenerateRetryCounts ==
    LET f == bk.f
        h == f.hist
    IN /\ (f.st # "none" /\ f.maxRetries <= 0) =>
             /\ h = <<>>
             /\ f.st = "returned"
             /\ f.val = Undefined
       /\ (f.st # "none" /\ f.maxRetries = 1) =>
             /\ CountEv(h, "invoke") = 1
             /\ CountEv(h, "delay") = 0
             /\ f.st \in {"calling", "returned", "thrown"}
             /\ f.st = "calling" => h = <<Ev("invoke", 0, NoMsg)>>
             /\ f.st = "returned" =>
                   /\ f.val \in FnValues
                   /\ h = <<Ev("invoke", 0, NoMsg), Ev("resolved", 0, f.val)>>
             /\ f.st = "thrown" =>
                   /\ f.err \in NetErrors
                   /\ h = <<Ev("invoke", 0, NoMsg), Ev("rejected", 0, f.err)>>

\* the call with maxRetries = 0 has completed
C28_Witness ==
    /\ bk.f.maxRetries = 0
    /\ bk.f.st = "returned"
    /\ bk.f.val = Undefined
    /\ bk.f.hist = <<>>

====
